---- MODULE Spec2Model ----
(***************************************************************************)
(* Model of the runner-side Connection actor                               *)
(* (backend/testbed/src/connection.rs) and of the coordinator-side request *)
(* handlers join_server and run_experiment                                 *)
(* (backend/experiment/src/handlers.rs).                                   *)
(***************************************************************************)
EXTENDS Integers, Sequences, FiniteSets, TLC

\* ------------------------------------------------------------------ bounds
MaxFails == 6       \* consecutive failed connect attempts explored
MaxHandled == 2     \* stream items delivered to StreamHandler::handle
MaxRunId == 2       \* run ids carried by RunExperiment frames

\* --------------------------------------------------------------- constants
MAX_TIMING == 5

TIMINGS == [i \in 0..(MAX_TIMING - 1) |-> <<0, 2, 4, 6, 8>>[i + 1]]

Min(a, b) == IF a < b THEN a ELSE b

None == "None"
Some == "Some"

\* ------------------------------------------------------------------- state
VARIABLES
    actor,                 \* lifecycle of the Connection actor
    sink,                  \* Connection.sink : Option<Write>
    current_timing_index,  \* Connection.current_timing_index
    executor,              \* Connection.executor : Option<Addr<Executor>>
    attempts,              \* connect futures spawned by try_connect, in flight
    timers,                \* delays of the pending ctx.run_later callbacks
    streams,               \* inbound streams registered with add_stream
    unflushed,             \* messages buffered in the SinkWrite, not yet sent
    written,               \* every message passed to sink.write, in order
    handled,               \* items given to StreamHandler::handle, with outcome
    executorRuns,          \* run ids handed to the executor
    fails,                 \* failed attempts since start / last success
    prevFails,             \* failed attempts that preceded the last success
    writeErrors            \* errors raised by the SinkWrite future

connVars == <<actor, sink, current_timing_index, executor, attempts, timers,
              streams, unflushed, written, handled, executorRuns, fails,
              prevFails, writeErrors>>

VARIABLES
    experiments,           \* experiments table: id -> row or NoRow
    jobs,                  \* jobs table: job id (position) -> row
    sessions,              \* Sessions started by join_server: id -> row
    registry,              \* ExperimentServer: entries (runner_id, session id)
    dispatched,            \* RunExperiment messages handed to a Session
    joinLog,               \* join_server requests served, with their outcome
    calls,                 \* run_experiment requests: id -> progress
    serverRunning,         \* the ExperimentServer actor accepts messages
    lastCrud               \* the last update/delete request served, numbered

srvVars == <<experiments, jobs, sessions, registry, dispatched, joinLog,
             calls, serverRunning, lastCrud>>

vars == <<connVars, srvVars>>

\* ------------------------------------------------------- wire, runner side
RunIds == 1..MaxRunId
Codes == {"pass", "fail"}

\* Bytes of a text frame, described by what the decoders can tell about them.
NoBytes == [utf8 |-> FALSE, json |-> FALSE, kind |-> "", hasRunId |-> FALSE,
            run_id |-> 0, code |-> ""]

MalformedBytes ==
    { NoBytes,
      [NoBytes EXCEPT !.utf8 = TRUE],
      [NoBytes EXCEPT !.utf8 = TRUE, !.json = TRUE, !.kind = "Bogus",
                      !.hasRunId = TRUE, !.run_id = 1, !.code = "pass"],
      [NoBytes EXCEPT !.utf8 = TRUE, !.json = TRUE, !.kind = "RunExperiment"] }

RunExperimentBytes ==
    { [utf8 |-> TRUE, json |-> TRUE, kind |-> "RunExperiment",
       hasRunId |-> TRUE, run_id |-> r, code |-> c] : r \in RunIds, c \in Codes }

Frames ==
    { [type |-> t, bytes |-> NoBytes] : t \in {"Ping", "Pong", "Binary"} }
    \cup { [type |-> "Text", bytes |-> b] : b \in MalformedBytes \cup RunExperimentBytes }

\* Items of the inbound stream: Result<Frame, WsProtocolError>.
ErrItem == [ok |-> FALSE, frame |-> [type |-> "None", bytes |-> NoBytes]]

StreamItems == { [ok |-> TRUE, frame |-> f] : f \in Frames } \cup { ErrItem }

\* String::from_utf8(bytes)
FromUtf8(bytes) == IF bytes.utf8 THEN "Ok" ELSE "InvalidMessage"

\* serde_json::from_str::<client::BaseMessage>(text): the only kind is RunExperiment
ParseBaseMessage(text) ==
    IF text.json /\ text.kind \in {"RunExperiment"} THEN "Ok" ELSE "InvalidMessage"

\* serde_json::from_str::<client::SocketMessage<client::RunExperiment>>(text)
ParseRunExperiment(text) ==
    IF text.json /\ text.kind = "RunExperiment" /\ text.hasRunId
    THEN "Ok" ELSE "InvalidMessage"

\* Variant of DecodeResult that does not propagate the error of the second parse.
DecodeResultIgnoringData(frame) ==
    IF frame.type # "Text" THEN "Ok"
    ELSE IF FromUtf8(frame.bytes) # "Ok" THEN "InvalidMessage"
    ELSE ParseBaseMessage(frame.bytes)

\* Decoding part of handle_frame: the result it returns.
DecodeResult(frame) ==
    IF frame.type # "Text" THEN "Ok"
    ELSE IF FromUtf8(frame.bytes) # "Ok" THEN "InvalidMessage"
    ELSE IF ParseBaseMessage(frame.bytes) # "Ok" THEN "InvalidMessage"
    ELSE ParseRunExperiment(frame.bytes)

IsRunExperiment(frame) == frame.type = "Text" /\ DecodeResult(frame) = "Ok"

\* server::SocketMessage { kind: RunResult, data: RunResult { run_id, successful: true } }
RunResult(frame) ==
    [kind |-> "RunResult", run_id |-> frame.bytes.run_id, successful |-> TRUE]

\* Variant of FrameReplies that writes the RunResult twice.
FrameRepliesTwice(frame, snk) ==
    IF IsRunExperiment(frame) /\ snk = Some
    THEN <<RunResult(frame), RunResult(frame)>> ELSE <<>>

\* What handle_frame writes to the sink for a frame.
FrameReplies(frame, snk) ==
    IF IsRunExperiment(frame) /\ snk = Some THEN <<RunResult(frame)>> ELSE <<>>

\* Executor::run(code) -> successful
ExecutorRun(code) == code = "pass"

\* Variant of NextTimingIndex that forgets the increment.
NextTimingIndexNoIncrement(i) == Min(i, MAX_TIMING - 1)

\* min(act.current_timing_index + 1, MAX_TIMING - 1)
NextTimingIndex(i) == Min(i + 1, MAX_TIMING - 1)

\* ----------------------------------------------------------------- Init
ConnInit ==
    /\ actor = "created"
    /\ sink = None
    /\ current_timing_index = 0
    /\ executor = None
    /\ attempts = 0
    /\ timers = <<>>
    /\ streams = 0
    /\ unflushed = 0
    /\ written = <<>>
    /\ handled = <<>>
    /\ executorRuns = {}
    /\ fails = 0
    /\ prevFails = 0
    /\ writeErrors = 0

\* Connection::try_connect: spawns one connect future on the context.
try_connect == attempts' = attempts + 1

\* Actor::started
Started ==
    /\ actor = "created"
    /\ actor' = "running"
    /\ try_connect
    /\ UNCHANGED <<sink, current_timing_index, executor, timers, streams,
                   unflushed, written, handled, executorRuns, fails, prevFails, writeErrors>>
    /\ UNCHANGED srvVars

\* Variant of ConnectOk that keeps current_timing_index.
ConnectOkNoReset ==
    /\ actor = "running"
    /\ attempts > 0
    /\ attempts' = attempts - 1
    /\ streams' = streams + 1
    /\ sink' = Some
    /\ unflushed' = 0
    /\ fails' = 0
    /\ prevFails' = fails
    /\ UNCHANGED <<actor, current_timing_index, executor, timers, written,
                   handled, executorRuns, writeErrors>>
    /\ UNCHANGED srvVars

\* try_connect, continuation with Ok(framed)
ConnectOk ==
    /\ actor = "running"
    /\ attempts > 0
    /\ attempts' = attempts - 1
    /\ streams' = streams + 1
    /\ sink' = Some
    /\ unflushed' = 0
    /\ current_timing_index' = 0
    /\ fails' = 0
    /\ prevFails' = fails
    /\ UNCHANGED <<actor, executor, timers, written, handled, executorRuns, writeErrors>>
    /\ UNCHANGED srvVars

\* Variant of ConnectFail that schedules no retry.
ConnectFailNoRetry ==
    /\ actor = "running"
    /\ attempts > 0
    /\ fails < MaxFails
    /\ attempts' = attempts - 1
    /\ current_timing_index' = NextTimingIndex(current_timing_index)
    /\ fails' = fails + 1
    /\ UNCHANGED <<actor, sink, executor, timers, streams, unflushed, written,
                   handled, executorRuns, prevFails, writeErrors>>
    /\ UNCHANGED srvVars

\* try_connect, continuation with Err(ServerNotReachable)
ConnectFail ==
    /\ actor = "running"
    /\ attempts > 0
    /\ fails < MaxFails
    /\ attempts' = attempts - 1
    /\ current_timing_index' = NextTimingIndex(current_timing_index)
    /\ timers' = Append(timers, TIMINGS[current_timing_index'])
    /\ fails' = fails + 1
    /\ UNCHANGED <<actor, sink, executor, streams, unflushed, written, handled,
                   executorRuns, prevFails, writeErrors>>
    /\ UNCHANGED srvVars

\* the ctx.run_later callback of try_connect
TimerFire ==
    /\ actor = "running"
    /\ timers # <<>>
    /\ timers' = Tail(timers)
    /\ try_connect
    /\ UNCHANGED <<actor, sink, current_timing_index, executor, streams,
                   unflushed, written, handled, executorRuns, fails, prevFails, writeErrors>>
    /\ UNCHANGED srvVars

\* StreamHandler::handle
Handle(item) ==
    /\ actor = "running"
    /\ streams > 0
    /\ Len(handled) < MaxHandled
    /\ LET result == IF item.ok THEN DecodeResult(item.frame) ELSE "SocketError"
           replies == IF item.ok THEN FrameReplies(item.frame, sink) ELSE <<>>
       IN /\ handled' = Append(handled, [item |-> item, result |-> result])
          /\ written' = written \o replies
          /\ unflushed' = unflushed + Len(replies)
    /\ UNCHANGED <<actor, sink, current_timing_index, executor, attempts,
                   timers, streams, executorRuns, fails, prevFails, writeErrors>>
    /\ UNCHANGED srvVars

\* Variant of Finished that leaves the sink in place.
FinishedKeepsSink ==
    /\ actor = "running"
    /\ streams > 0
    /\ streams' = streams - 1
    /\ try_connect
    /\ UNCHANGED <<actor, sink, unflushed, current_timing_index, executor,
                   timers, written, handled, executorRuns, fails, prevFails,
                   writeErrors>>
    /\ UNCHANGED srvVars

\* StreamHandler::finished
Finished ==
    /\ actor = "running"
    /\ streams > 0
    /\ streams' = streams - 1
    /\ sink' = None
    /\ unflushed' = 0
    /\ try_connect
    /\ UNCHANGED <<actor, current_timing_index, executor, timers, written,
                   handled, executorRuns, fails, prevFails, writeErrors>>
    /\ UNCHANGED srvVars

\* Handler<UpdateExecutorMessage>::handle
UpdateExecutor ==
    /\ actor = "running"
    /\ executor = None
    /\ executor' = Some
    /\ UNCHANGED <<actor, sink, current_timing_index, attempts, timers, streams,
                   unflushed, written, handled, executorRuns, fails, prevFails, writeErrors>>
    /\ UNCHANGED srvVars

\* The SinkWrite future sends the buffered messages.
Flush ==
    /\ actor = "running"
    /\ sink = Some
    /\ unflushed > 0
    /\ unflushed' = 0
    /\ UNCHANGED <<actor, sink, current_timing_index, executor, attempts,
                   timers, streams, written, handled, executorRuns, fails, prevFails, writeErrors>>
    /\ UNCHANGED srvVars

\* The SinkWrite future fails to send: WriteHandler::error, not overridden by
\* the empty impl, returns Running::Stop, and WriteHandler::finished, not
\* overridden either, stops the context.
WriteError ==
    /\ actor = "running"
    /\ sink = Some
    /\ unflushed > 0
    /\ actor' = "stopped"
    /\ writeErrors' = writeErrors + 1
    /\ UNCHANGED <<sink, current_timing_index, executor, attempts, timers,
                   streams, unflushed, written, handled, executorRuns, fails,
                   prevFails>>
    /\ UNCHANGED srvVars

ConnNext ==
    \/ Started
    \/ ConnectOk
    \/ ConnectFail
    \/ TimerFire
    \/ \E item \in StreamItems : Handle(item)
    \/ Finished
    \/ UpdateExecutor
    \/ Flush
    \/ WriteError

\* ------------------------------------------------------ coordinator side
MaxJoins == 2       \* join_server requests explored
MaxCalls == 2       \* run_experiment requests explored
MaxEdits == 2       \* update and delete requests explored

Users == {1, 2}
ExperimentIds == {1, 2}
RunnerIds == {1, 2}
Names == {"n", "m"}
ExperimentCodes == {"a", "b"}

NoRow == [user_id |-> 0, name |-> "", code |-> ""]

\* runners table: runner 2 does not exist
Runners == { [id |-> 1, access_key |-> "k1"] }

\* Tokens presented in the token query parameter.
HashEncode(payload) == [access_key |-> payload.access_key, intact |-> TRUE]

Tokens ==
    { HashEncode([access_key |-> k]) : k \in {"k1", "k9"} }
    \cup { [access_key |-> "k1", intact |-> FALSE] }

\* hash.decode::<RunnerToken>(token)
HashDecode(token) ==
    IF token.intact
    THEN [ok |-> TRUE, access_key |-> token.access_key]
    ELSE [ok |-> FALSE, access_key |-> ""]

\* runners::table.filter(runners::access_key.eq(access_key)).first::<Runner>()
RunnerByAccessKey(access_key) == { r \in Runners : r.access_key = access_key }

\* runners::table.find(runner_id).first::<Runner>()
RunnerById(runner_id) == { r \in Runners : r.id = runner_id }

\* Variant of ExperimentOf without the ownership filter.
ExperimentOfAnyUser(user, experiment_id) ==
    IF experiments[experiment_id] # NoRow
    THEN {experiments[experiment_id]} ELSE {}

\* experiments::table.filter(user_id.eq(user)).find(experiment_id).first()
ExperimentOf(user, experiment_id) ==
    IF experiments[experiment_id] # NoRow
       /\ experiments[experiment_id].user_id = user
    THEN {experiments[experiment_id]} ELSE {}

NoCrud == [n |-> 0, op |-> "none", user |-> 0, id |-> 0, response |-> "none"]

NoCall == [pc |-> "idle", user |-> 0, experiment_id |-> 0, runner_id |-> 0,
           job_id |-> 0, send |-> "none", response |-> "none"]

SrvInit ==
    /\ experiments = [e \in ExperimentIds |->
                        IF e = 1 THEN [user_id |-> 1, name |-> "n", code |-> "a"]
                        ELSE NoRow]
    /\ jobs = <<>>
    /\ sessions = <<>>
    /\ registry = {}
    /\ dispatched = <<>>
    /\ joinLog = <<>>
    /\ calls = [c \in 1..MaxCalls |-> NoCall]
    /\ serverRunning = TRUE
    /\ lastCrud = NoCrud

\* Variant of JoinOutcome that goes on with an undecodable token.
JoinOutcomeNoDecodeCheck(token, wsOk) ==
    LET found == RunnerByAccessKey(token.access_key)
    IN IF found = {} THEN [response |-> "NotFound", runner_id |-> 0]
       ELSE IF ~wsOk THEN [response |-> "WebSocketConnectionError", runner_id |-> 0]
       ELSE [response |-> "Switching", runner_id |-> (CHOOSE r \in found : TRUE).id]

\* join_server: the response, and the runner a Session is started for (0: none)
JoinOutcome(token, wsOk) ==
    LET decoded == HashDecode(token)
        found == RunnerByAccessKey(decoded.access_key)
    IN IF ~decoded.ok THEN [response |-> "InvalidToken", runner_id |-> 0]
       ELSE IF found = {} THEN [response |-> "NotFound", runner_id |-> 0]
       ELSE IF ~wsOk THEN [response |-> "WebSocketConnectionError", runner_id |-> 0]
       ELSE [response |-> "Switching", runner_id |-> (CHOOSE r \in found : TRUE).id]

\* join_server
JoinServer(token, wsOk) ==
    /\ Len(joinLog) < MaxJoins
    /\ LET out == JoinOutcome(token, wsOk)
       IN /\ sessions' = IF out.runner_id # 0
                         THEN Append(sessions, [runner_id |-> out.runner_id,
                                                state |-> "started"])
                         ELSE sessions
          /\ joinLog' = Append(joinLog,
                               [token |-> token, response |-> out.response,
                                session |-> IF out.runner_id # 0
                                            THEN Len(sessions) + 1 ELSE 0])
    /\ UNCHANGED <<experiments, jobs, registry, dispatched, calls, serverRunning>>
    /\ UNCHANGED lastCrud
    /\ UNCHANGED connVars

\* The ExperimentServer's entry of a Session.
Entry(s) == [runner_id |-> sessions[s].runner_id, session |-> s]

\* The sessions registered for a runner.
SessionsOf(runner_id) == { e.session : e \in { x \in registry : x.runner_id = runner_id } }

\* Variant of Register that keeps the entry already there.
RegisterNoReplace(s) ==
    /\ s \in DOMAIN sessions
    /\ sessions[s].state = "started"
    /\ serverRunning
    /\ sessions' = [sessions EXCEPT ![s].state = "registered"]
    /\ registry' = registry \cup {Entry(s)}
    /\ UNCHANGED <<experiments, jobs, dispatched, joinLog, calls, serverRunning>>
    /\ UNCHANGED lastCrud
    /\ UNCHANGED connVars

\* Session start: register(runner_id, session_handle), last connect wins
Register(s) ==
    /\ s \in DOMAIN sessions
    /\ sessions[s].state = "started"
    /\ serverRunning
    /\ sessions' = [sessions EXCEPT ![s].state = "registered"]
    /\ registry' = { e \in registry : e.runner_id # sessions[s].runner_id }
                    \cup {Entry(s)}
    /\ UNCHANGED <<experiments, jobs, dispatched, joinLog, calls, serverRunning>>
    /\ UNCHANGED lastCrud
    /\ UNCHANGED connVars

\* The socket of a Session closes; the Session stops.
SessionClose(s) ==
    /\ s \in DOMAIN sessions
    /\ sessions[s].state = "registered"
    /\ sessions' = [sessions EXCEPT ![s].state = "closing"]
    /\ UNCHANGED <<experiments, jobs, registry, dispatched, joinLog, calls,
                   serverRunning>>
    /\ UNCHANGED lastCrud
    /\ UNCHANGED connVars

\* deregister(runner_id, session_handle): removes the entry only if it is this one
Deregister(s) ==
    /\ s \in DOMAIN sessions
    /\ sessions[s].state = "closing"
    /\ sessions' = [sessions EXCEPT ![s].state = "closed"]
    /\ registry' = registry \ {Entry(s)}
    /\ UNCHANGED <<experiments, jobs, dispatched, joinLog, calls, serverRunning>>
    /\ UNCHANGED lastCrud
    /\ UNCHANGED connVars

\* The ExperimentServer actor stops; its mailbox is closed from then on.
ServerStop ==
    /\ serverRunning
    /\ serverRunning' = FALSE
    /\ UNCHANGED <<experiments, jobs, sessions, registry, dispatched, joinLog,
                   calls>>
    /\ UNCHANGED lastCrud
    /\ UNCHANGED connVars

\* ExperimentServer, handler of RunExperimentMessage: the outcome of a dispatch
DispatchOutcome(job_id) ==
    LET live == SessionsOf(jobs[job_id].runner_id)
    IN IF live = {} THEN "RunnerUnavailable"
       ELSE IF sessions[CHOOSE s \in live : TRUE].state # "registered"
            THEN "SendFailed"
       ELSE "Accepted"

\* Variant of RunExperimentCreateJob that inserts the Job row twice.
RunExperimentCreateJobTwice(c, user, experiment_id, runner_id) ==
    /\ calls[c].pc = "idle"
    /\ \A d \in 1..(c - 1) : calls[d].pc # "idle"
    /\ LET experiment == ExperimentOf(user, experiment_id)
           runner == RunnerById(runner_id)
           row == [experiment_id |-> experiment_id,
                   runner_id |-> runner_id,
                   code |-> (CHOOSE e \in experiment : TRUE).code,
                   status |-> "Pending"]
       IN IF experiment = {} \/ runner = {}
          THEN /\ calls' = [calls EXCEPT ![c] =
                              [NoCall EXCEPT !.pc = "done", !.user = user,
                                             !.experiment_id = experiment_id,
                                             !.runner_id = runner_id,
                                             !.response = "NotFound"]]
               /\ jobs' = jobs
          ELSE /\ jobs' = Append(Append(jobs, row), row)
               /\ calls' = [calls EXCEPT ![c] =
                              [NoCall EXCEPT !.pc = "send", !.user = user,
                                             !.experiment_id = experiment_id,
                                             !.runner_id = runner_id,
                                             !.job_id = Len(jobs) + 1]]
    /\ UNCHANGED <<experiments, sessions, registry, dispatched, joinLog,
                   serverRunning>>
    /\ UNCHANGED lastCrud
    /\ UNCHANGED connVars

\* run_experiment, lines 146-160: look the rows up and insert the Job
RunExperimentCreateJob(c, user, experiment_id, runner_id) ==
    /\ calls[c].pc = "idle"
    /\ \A d \in 1..(c - 1) : calls[d].pc # "idle"
    /\ LET experiment == ExperimentOf(user, experiment_id)
           runner == RunnerById(runner_id)
       IN IF experiment = {} \/ runner = {}
          THEN /\ calls' = [calls EXCEPT ![c] =
                              [NoCall EXCEPT !.pc = "done", !.user = user,
                                             !.experiment_id = experiment_id,
                                             !.runner_id = runner_id,
                                             !.response = "NotFound"]]
               /\ jobs' = jobs
          ELSE /\ jobs' = Append(jobs,
                                 [experiment_id |-> experiment_id,
                                  runner_id |-> runner_id,
                                  code |-> (CHOOSE e \in experiment : TRUE).code,
                                  status |-> "Pending"])
               /\ calls' = [calls EXCEPT ![c] =
                              [NoCall EXCEPT !.pc = "send", !.user = user,
                                             !.experiment_id = experiment_id,
                                             !.runner_id = runner_id,
                                             !.job_id = Len(jobs) + 1]]
    /\ UNCHANGED <<experiments, sessions, registry, dispatched, joinLog,
                   serverRunning>>
    /\ UNCHANGED lastCrud
    /\ UNCHANGED connVars

\* Variant of RunExperimentSend that takes the Err branch after any send.
RunExperimentSendAlwaysErr(c) ==
    /\ calls[c].pc = "send"
    /\ IF ~serverRunning
       THEN /\ calls' = [calls EXCEPT ![c].pc = "markFailed",
                                      ![c].send = "MailboxError"]
            /\ dispatched' = dispatched
       ELSE LET outcome == DispatchOutcome(calls[c].job_id)
            IN /\ calls' = [calls EXCEPT ![c].pc = "markFailed",
                                         ![c].send = outcome]
               /\ dispatched' =
                     IF outcome = "Accepted"
                     THEN Append(dispatched,
                                 [job_id |-> calls[c].job_id,
                                  session |-> CHOOSE x \in SessionsOf(jobs[calls[c].job_id].runner_id) : TRUE])
                     ELSE dispatched
    /\ UNCHANGED <<experiments, jobs, sessions, registry, joinLog, serverRunning>>
    /\ UNCHANGED lastCrud
    /\ UNCHANGED connVars

\* run_experiment, lines 162-163: experiment_server.send(...).await
RunExperimentSend(c) ==
    /\ calls[c].pc = "send"
    /\ IF ~serverRunning
       THEN /\ calls' = [calls EXCEPT ![c].pc = "markFailed",
                                      ![c].send = "MailboxError"]
            /\ dispatched' = dispatched
       ELSE LET outcome == DispatchOutcome(calls[c].job_id)
            IN /\ calls' = [calls EXCEPT ![c].pc = "respond",
                                         ![c].send = outcome]
               /\ dispatched' =
                     IF outcome = "Accepted"
                     THEN Append(dispatched,
                                 [job_id |-> calls[c].job_id,
                                  session |-> CHOOSE x \in SessionsOf(jobs[calls[c].job_id].runner_id) : TRUE])
                     ELSE dispatched
    /\ UNCHANGED <<experiments, jobs, sessions, registry, joinLog, serverRunning>>
    /\ UNCHANGED lastCrud
    /\ UNCHANGED connVars

\* run_experiment, lines 164-170: the Err branch sets the status to Failed
RunExperimentMarkFailed(c) ==
    /\ calls[c].pc = "markFailed"
    /\ jobs' = [jobs EXCEPT ![calls[c].job_id].status = "Failed"]
    /\ calls' = [calls EXCEPT ![c].pc = "respond"]
    /\ UNCHANGED <<experiments, sessions, registry, dispatched, joinLog,
                   serverRunning>>
    /\ UNCHANGED lastCrud
    /\ UNCHANGED connVars

\* run_experiment, line 173: Ok(SuccessResponse)
RunExperimentRespond(c) ==
    /\ calls[c].pc = "respond"
    /\ calls' = [calls EXCEPT ![c].pc = "done", ![c].response = "Success"]
    /\ UNCHANGED <<experiments, jobs, sessions, registry, dispatched, joinLog,
                   serverRunning>>
    /\ UNCHANGED lastCrud
    /\ UNCHANGED connVars

Dispatched(job_id) == \E i \in 1..Len(dispatched) : dispatched[i].job_id = job_id

\* The runner acknowledges a dispatched Job: Pending -> Running
RunnerAck(job_id) ==
    /\ job_id \in DOMAIN jobs
    /\ Dispatched(job_id)
    /\ jobs[job_id].status = "Pending"
    /\ jobs' = [jobs EXCEPT ![job_id].status = "Running"]
    /\ UNCHANGED <<experiments, sessions, registry, dispatched, joinLog, calls,
                   serverRunning>>
    /\ UNCHANGED lastCrud
    /\ UNCHANGED connVars

\* report_result(job_id, successful): Running -> Completed | Failed
ReportResult(job_id, successful) ==
    /\ job_id \in DOMAIN jobs
    /\ Dispatched(job_id)
    /\ jobs[job_id].status = "Running"
    /\ jobs' = [jobs EXCEPT ![job_id].status =
                   IF successful THEN "Completed" ELSE "Failed"]
    /\ UNCHANGED <<experiments, sessions, registry, dispatched, joinLog, calls,
                   serverRunning>>
    /\ UNCHANGED lastCrud
    /\ UNCHANGED connVars

\* The response and numbering of an update or delete request.
Served(op, user, id) ==
    [n |-> lastCrud.n + 1, op |-> op, user |-> user, id |-> id,
     response |-> "Success"]

\* update_experiment_name
UpdateExperimentName(user, id, name) ==
    /\ lastCrud.n < MaxEdits
    /\ experiments' = IF ExperimentOf(user, id) # {}
                      THEN [experiments EXCEPT ![id].name = name]
                      ELSE experiments
    /\ lastCrud' = Served("update_experiment_name", user, id)
    /\ UNCHANGED <<jobs, sessions, registry, dispatched, joinLog, calls,
                   serverRunning>>
    /\ UNCHANGED connVars

\* Variant of UpdateExperimentCode that also rewrites the code of the Jobs
\* of the Experiment.
UpdateExperimentCodeAndJobs(user, id, code) ==
    /\ lastCrud.n < MaxEdits
    /\ experiments' = IF ExperimentOf(user, id) # {}
                      THEN [experiments EXCEPT ![id].code = code]
                      ELSE experiments
    /\ jobs' = IF ExperimentOf(user, id) # {}
               THEN [j \in DOMAIN jobs |->
                        IF jobs[j].experiment_id = id
                        THEN [jobs[j] EXCEPT !.code = code] ELSE jobs[j]]
               ELSE jobs
    /\ lastCrud' = Served("update_experiment_code", user, id)
    /\ UNCHANGED <<sessions, registry, dispatched, joinLog, calls,
                   serverRunning>>
    /\ UNCHANGED connVars

\* update_experiment_code
UpdateExperimentCode(user, id, code) ==
    /\ lastCrud.n < MaxEdits
    /\ experiments' = IF ExperimentOf(user, id) # {}
                      THEN [experiments EXCEPT ![id].code = code]
                      ELSE experiments
    /\ lastCrud' = Served("update_experiment_code", user, id)
    /\ UNCHANGED <<jobs, sessions, registry, dispatched, joinLog, calls,
                   serverRunning>>
    /\ UNCHANGED connVars

\* Variant of DeleteExperiment without the ownership filter.
DeleteExperimentAnyUser(user, id) ==
    /\ lastCrud.n < MaxEdits
    /\ \A j \in DOMAIN jobs : jobs[j].experiment_id # id
    /\ experiments' = [experiments EXCEPT ![id] = NoRow]
    /\ lastCrud' = Served("delete_experiment", user, id)
    /\ UNCHANGED <<jobs, sessions, registry, dispatched, joinLog, calls,
                   serverRunning>>
    /\ UNCHANGED connVars

\* delete_experiment; what the delete of a row that Jobs refer to does is
\* decided by the schema's foreign key, so it is left out.
DeleteExperiment(user, id) ==
    /\ lastCrud.n < MaxEdits
    /\ ExperimentOf(user, id) # {} => \A j \in DOMAIN jobs : jobs[j].experiment_id # id
    /\ experiments' = IF ExperimentOf(user, id) # {}
                      THEN [experiments EXCEPT ![id] = NoRow]
                      ELSE experiments
    /\ lastCrud' = Served("delete_experiment", user, id)
    /\ UNCHANGED <<jobs, sessions, registry, dispatched, joinLog, calls,
                   serverRunning>>
    /\ UNCHANGED connVars

CrudNext ==
    \/ \E user \in Users, id \in ExperimentIds, name \in Names :
          UpdateExperimentName(user, id, name)
    \/ \E user \in Users, id \in ExperimentIds, code \in ExperimentCodes :
          UpdateExperimentCode(user, id, code)
    \/ \E user \in Users, id \in ExperimentIds : DeleteExperiment(user, id)
    \/ \E c \in 1..MaxCalls, user \in Users, e \in ExperimentIds, r \in RunnerIds :
          RunExperimentCreateJob(c, user, e, r)
    \/ \E c \in 1..MaxCalls : RunExperimentSend(c)
    \/ \E c \in 1..MaxCalls : RunExperimentMarkFailed(c)
    \/ \E c \in 1..MaxCalls : RunExperimentRespond(c)
    \/ ServerStop

SrvNext ==
    \/ \E token \in Tokens, wsOk \in BOOLEAN : JoinServer(token, wsOk)
    \/ \E s \in DOMAIN sessions : Register(s)
    \/ \E s \in DOMAIN sessions : SessionClose(s)
    \/ \E s \in DOMAIN sessions : Deregister(s)
    \/ ServerStop
    \/ \E c \in 1..MaxCalls, user \in Users, e \in ExperimentIds, r \in RunnerIds :
          RunExperimentCreateJob(c, user, e, r)
    \/ \E c \in 1..MaxCalls : RunExperimentSend(c)
    \/ \E c \in 1..MaxCalls : RunExperimentMarkFailed(c)
    \/ \E c \in 1..MaxCalls : RunExperimentRespond(c)
    \/ \E j \in DOMAIN jobs : RunnerAck(j)
    \/ \E j \in DOMAIN jobs, ok \in BOOLEAN : ReportResult(j, ok)

Init == ConnInit /\ SrvInit

Spec == Init /\ [][ConnNext]_vars

ServerSpec == Init /\ [][SrvNext]_vars

CrudSpec == Init /\ [][CrudNext]_vars

\* The actor system runs started and the timer callbacks; the coordinator
\* eventually stays reachable, so repeated connect attempts end up succeeding.
LiveSpec ==
    /\ Init
    /\ [][ConnNext]_vars
    /\ WF_vars(Started)
    /\ WF_vars(TimerFire)
    /\ SF_vars(ConnectOk)

\* ------------------------------------------------------ Connection claims
LastHandled == handled'[Len(handled')]

HandleStep == Len(handled') = Len(handled) + 1

ConnectFailStep == Len(timers') = Len(timers) + 1

ConnectOkStep == streams' = streams + 1

\* C1: after N >= 1 consecutive failed connect attempts since the start or
\* the last successful connect, the delay scheduled before the next attempt
\* is TIMINGS[min(N, MAX_TIMING - 1)].
C1_BackoffDelay ==
    \A i \in 1..Len(timers) :
        /\ fails >= 1
        /\ timers[i] = TIMINGS[Min(fails, MAX_TIMING - 1)]

C1_Witness ==
    /\ timers # <<>>
    /\ fails > MAX_TIMING

\* C2: current_timing_index always is a valid index of TIMINGS; a failed
\* attempt increments it by one, saturating at the last entry, a successful
\* connect resets it to zero, and the first failure after a success (or after
\* the start) is delayed by TIMINGS[1] whatever preceded the success.
C2_TimingStep ==
    /\ current_timing_index \in 0..(MAX_TIMING - 1)
    /\ current_timing_index' \in 0..(MAX_TIMING - 1)
    /\ ConnectFailStep =>
          /\ current_timing_index' =
                IF current_timing_index = MAX_TIMING - 1
                THEN MAX_TIMING - 1 ELSE current_timing_index + 1
          /\ fails = 0 => timers'[Len(timers')] = TIMINGS[1]
    /\ ConnectOkStep => current_timing_index' = 0

C2_TimingIndex == [][C2_TimingStep]_vars

C2_Witness ==
    /\ prevFails >= MAX_TIMING
    /\ fails = 1
    /\ timers = <<TIMINGS[1]>>

\* C3: while Connected, an Err item on the inbound stream or the end of the
\* stream clears the sink and starts a new try_connect.
C3_ErrorOrCloseStep ==
    (/\ sink = Some
     /\ \/ HandleStep /\ ~LastHandled.item.ok
        \/ streams' = streams - 1)
    => (sink' = None /\ attempts' = attempts + 1)

C3_ErrorOrCloseReconnects == [][C3_ErrorOrCloseStep]_vars

\* C4: a write failure on the sink does not stop the Connection; while the
\* inbound stream is live the Connection keeps running after a write error.
C4_WriteErrorKeepsReading ==
    (writeErrors > 0 /\ streams > 0) => actor = "running"

\* C5: a RunExperiment frame whose code makes the executor fail is answered
\* with a RunResult for that run with successful = false.
C5_FailedRunStep ==
    (/\ HandleStep
     /\ LastHandled.item.ok
     /\ IsRunExperiment(LastHandled.item.frame)
     /\ ~ExecutorRun(LastHandled.item.frame.bytes.code))
    => written' = Append(written,
                         [kind |-> "RunResult",
                          run_id |-> LastHandled.item.frame.bytes.run_id,
                          successful |-> FALSE])

C5_FailedRunReported == [][C5_FailedRunStep]_vars

\* C6: a RunExperiment frame is handed to the executor, and a RunResult is
\* written to the sink only for a run the executor has been given.
C6_ResultAfterExecutor ==
    /\ \A i \in 1..Len(written) : written[i].run_id \in executorRuns
    /\ \A i \in 1..Len(handled) :
          (handled[i].item.ok /\ IsRunExperiment(handled[i].item.frame))
          => handled[i].item.frame.bytes.run_id \in executorRuns

\* C7: a malformed text frame is rejected as InvalidMessage and dropped: no
\* outbound message, sink and current_timing_index unchanged, no reconnect,
\* and the stream stays live for the frames that follow.
C7_MalformedStep ==
    (/\ HandleStep
     /\ LastHandled.item.ok
     /\ LastHandled.item.frame.type = "Text"
     /\ LastHandled.item.frame.bytes \in MalformedBytes)
    => /\ LastHandled.result = "InvalidMessage"
       /\ UNCHANGED <<written, unflushed, sink, current_timing_index,
                      attempts, timers, streams, actor>>
       /\ streams' > 0

C7_MalformedFrameDropped == [][C7_MalformedStep]_vars

C7_Witness ==
    /\ Len(handled) = 2
    /\ handled[1].result = "InvalidMessage"
    /\ handled[2].result = "Ok"
    /\ IsRunExperiment(handled[2].item.frame)
    /\ Len(written) = 1
    /\ sink = Some

\* ----------------------------------------------------- coordinator claims
\* C8: join_server starts a Session only for a token that decodes and whose
\* access_key belongs to a Runner; a request with an undecodable token or an
\* unknown access_key is rejected with no Session, so every Session, registry
\* entry and dispatched message belongs to such an admitted request.
C8_SessionOnlyForKnownRunner ==
    /\ \A i \in 1..Len(joinLog) :
          LET e == joinLog[i]
              d == HashDecode(e.token)
          IN /\ ~d.ok => (e.response = "InvalidToken" /\ e.session = 0)
             /\ (d.ok /\ RunnerByAccessKey(d.access_key) = {})
                   => (e.response = "NotFound" /\ e.session = 0)
             /\ e.session # 0 =>
                   /\ d.ok
                   /\ e.session \in DOMAIN sessions
                   /\ \E r \in Runners : /\ r.access_key = d.access_key
                                         /\ sessions[e.session].runner_id = r.id
    /\ \A s \in DOMAIN sessions :
          \E i \in 1..Len(joinLog) : joinLog[i].session = s
    /\ \A e \in registry : e.session \in DOMAIN sessions /\ e = Entry(e.session)
    /\ \A i \in 1..Len(dispatched) : dispatched[i].session \in DOMAIN sessions

C8_Witness ==
    /\ Len(joinLog) = 2
    /\ joinLog[1].response = "InvalidToken"
    /\ joinLog[2].response = "Switching"
    /\ Len(sessions) = 1
    /\ registry = {[runner_id |-> 1, session |-> 1]}

Unreachable(c) ==
    /\ calls[c].pc = "done"
    /\ calls[c].send \in {"MailboxError", "RunnerUnavailable", "SendFailed"}

\* C9: a dispatch that cannot reach the target runner (no live session, or
\* the send fails) leaves the new Job with status Failed, never dispatched.
C9_UnreachableDispatchFailsJob ==
    \A c \in 1..MaxCalls :
        Unreachable(c) =>
            /\ jobs[calls[c].job_id].status = "Failed"
            /\ ~Dispatched(calls[c].job_id)

\* C10: a failed dispatch is reported to the caller as RunnerUnavailable,
\* not as the success response of an accepted dispatch.
C10_DispatchFailureSurfaced ==
    \A c \in 1..MaxCalls :
        Unreachable(c) => calls[c].response = "RunnerUnavailable"

\* A run_experiment request c is accepted past its lookups in this step.
CallStarts(c) == calls[c].pc = "idle" /\ calls'[c].pc # "idle"

Owns(user, experiment_id) ==
    /\ experiments[experiment_id] # NoRow
    /\ experiments[experiment_id].user_id = user

\* C11: run_experiment by the owner on an Experiment that has a Pending or
\* Running Job fails with InvalidOperationForStatus and creates no Job.
C11_RedispatchStep ==
    \A c \in 1..MaxCalls :
        (/\ CallStarts(c)
         /\ Owns(calls'[c].user, calls'[c].experiment_id)
         /\ RunnerById(calls'[c].runner_id) # {}
         /\ \E j \in DOMAIN jobs :
               /\ jobs[j].experiment_id = calls'[c].experiment_id
               /\ jobs[j].status \in {"Pending", "Running"})
        => /\ calls'[c].response = "InvalidOperationForStatus"
           /\ jobs' = jobs

C11_RedispatchRejected == [][C11_RedispatchStep]_vars

StatusMove(a, b) ==
    \/ a = b
    \/ a = "Pending" /\ b \in {"Running", "Failed"}
    \/ a = "Running" /\ b \in {"Completed", "Failed"}

\* C12: a Job's status only moves Pending -> Running -> {Completed, Failed}
\* or Pending -> Failed; a Completed or Failed status is never overwritten,
\* also not by the Failed update of run_experiment's error path.
C12_StatusStep ==
    /\ Len(jobs') >= Len(jobs)
    /\ \A j \in DOMAIN jobs : StatusMove(jobs[j].status, jobs'[j].status)
    /\ \A j \in DOMAIN jobs' : j \notin DOMAIN jobs => jobs'[j].status = "Pending"

C12_StatusMonotonic == [][C12_StatusStep]_vars

C12_Witness ==
    /\ \E c \in 1..MaxCalls :
          /\ calls[c].send = "MailboxError"
          /\ calls[c].pc = "done"
          /\ jobs[calls[c].job_id].status = "Failed"
    /\ \E j \in DOMAIN jobs : jobs[j].status = "Completed"

DispatchCount(job_id) ==
    Cardinality({ i \in 1..Len(dispatched) : dispatched[i].job_id = job_id })

\* C14: each accepted run_experiment call has exactly one Job of its own,
\* with the call's experiment_id and runner_id, Pending until the call has
\* sent its message; a Job is dispatched at most once and only once it exists.
C14_OneJobPerCall ==
    /\ Len(jobs) = Cardinality({ c \in 1..MaxCalls : calls[c].job_id # 0 })
    /\ \A c \in 1..MaxCalls :
          calls[c].job_id # 0 =>
             /\ calls[c].job_id \in DOMAIN jobs
             /\ jobs[calls[c].job_id].experiment_id = calls[c].experiment_id
             /\ jobs[calls[c].job_id].runner_id = calls[c].runner_id
             /\ \A d \in 1..MaxCalls : d # c => calls[d].job_id # calls[c].job_id
             /\ calls[c].pc = "send" =>
                   /\ jobs[calls[c].job_id].status = "Pending"
                   /\ ~Dispatched(calls[c].job_id)
    /\ \A i \in 1..Len(dispatched) :
          /\ dispatched[i].job_id \in DOMAIN jobs
          /\ DispatchCount(dispatched[i].job_id) = 1

C14_Witness ==
    /\ Len(jobs) = 2
    /\ Len(dispatched) = 2
    /\ \A c \in 1..2 : calls[c].pc = "done"

\* C20: run_experiment for an Experiment the caller does not own or that
\* does not exist, or for a runner_id without a Runner, ends with NotFound
\* and creates no Job, sends no message and writes no status.
C20_RejectedStep ==
    \A c \in 1..MaxCalls :
        (/\ CallStarts(c)
         /\ \/ ~Owns(calls'[c].user, calls'[c].experiment_id)
            \/ \A r \in Runners : r.id # calls'[c].runner_id)
        => /\ calls'[c].pc = "done"
           /\ calls'[c].response = "NotFound"
           /\ calls'[c].job_id = 0
           /\ calls'[c].send = "none"
           /\ UNCHANGED <<jobs, dispatched>>

C20_RejectedBeforeSideEffect == [][C20_RejectedStep]_vars

C20_Witness ==
    /\ \E c \in 1..MaxCalls :
          /\ calls[c].response = "NotFound"
          /\ calls[c].user = 2
          /\ calls[c].experiment_id = 1
          /\ calls[c].runner_id = 1
    /\ \E c \in 1..MaxCalls :
          /\ calls[c].response = "NotFound"
          /\ calls[c].user = 1
          /\ calls[c].experiment_id = 1
          /\ calls[c].runner_id = 2
    /\ jobs = <<>>

\* The well-formed RunExperiment frames handled so far, in arrival order.
RunFrames ==
    SelectSeq(handled, LAMBDA h : h.item.ok /\ IsRunExperiment(h.item.frame))

\* C18: the run ids of the RunResult messages written to the sink are the
\* run ids of the well-formed RunExperiment frames handled, one for one and
\* in the same order; Ping, Pong, other and rejected frames add no message.
C18_ResultsInArrivalOrder ==
    /\ Len(written) = Len(RunFrames)
    /\ \A i \in 1..Len(written) :
          /\ written[i].kind = "RunResult"
          /\ written[i].run_id = RunFrames[i].item.frame.bytes.run_id

C18_Witness ==
    /\ Len(handled) = 2
    /\ Len(written) = 2
    /\ written[1].run_id = 2
    /\ written[2].run_id = 1

\* C19: at most one connect attempt, retry timer or inbound stream exists at
\* a time; the sink is present only while a stream is live, and
\* current_timing_index is 0 whenever the sink is present.
C19_SingleActivity ==
    /\ attempts + Len(timers) + streams <= 1
    /\ actor # "created" => attempts + Len(timers) + streams = 1
    /\ sink = Some => streams = 1
    /\ sink = Some => current_timing_index = 0

C19_Witness ==
    /\ timers # <<>>
    /\ handled # <<>>
    /\ sink = None
    /\ current_timing_index = 2

Connected ==
    /\ actor = "running"
    /\ sink = Some
    /\ streams = 1
    /\ current_timing_index = 0

\* C17: every failed connect attempt schedules exactly one retry, every
\* fired retry and every stream finish starts exactly one new attempt, and a
\* Connection without a sink eventually is Connected when the coordinator
\* eventually stays reachable.
C17_RetryStep ==
    /\ fails' = fails + 1 =>
          /\ Len(timers') = Len(timers) + 1
          /\ attempts' = attempts - 1
    /\ Len(timers') < Len(timers) =>
          /\ Len(timers') = Len(timers) - 1
          /\ attempts' = attempts + 1
    /\ streams' < streams =>
          /\ streams' = streams - 1
          /\ attempts' = attempts + 1

C15_OneSessionPerRunner ==
    \A r \in RunnerIds : Cardinality(SessionsOf(r)) <= 1

C15_Witness ==
    /\ Len(sessions) = 2
    /\ sessions[1].runner_id = sessions[2].runner_id
    /\ sessions[1].state = "registered"
    /\ sessions[2].state = "registered"
    /\ registry = {[runner_id |-> sessions[2].runner_id, session |-> 2]}

\* C13: a Job's code is the code its Experiment had when run_experiment
\* created the Job, and no later request changes it.
C13_SnapshotStep ==
    /\ \A j \in DOMAIN jobs :
          /\ j \in DOMAIN jobs'
          /\ jobs'[j].code = jobs[j].code
    /\ \A j \in DOMAIN jobs' :
          j \notin DOMAIN jobs =>
             jobs'[j].code = experiments[jobs'[j].experiment_id].code

C13_CodeSnapshot == [][C13_SnapshotStep]_vars

C13_Witness ==
    /\ Len(jobs) = 2
    /\ jobs[1].experiment_id = 1
    /\ jobs[2].experiment_id = 1
    /\ jobs[1].code = "a"
    /\ jobs[2].code = "b"
    /\ experiments[1].code = "a"

\* An update or delete request is served in this step.
CrudStep == lastCrud'.n = lastCrud.n + 1

\* C16: an update_experiment_name, update_experiment_code or delete_experiment
\* request answers with the success response; made by a user who does not own
\* the target row, or for a missing id, it leaves every row unchanged, and a
\* row changes only in a request of its owner for that row.
C16_CrudStep ==
    /\ CrudStep =>
          /\ lastCrud'.response = "Success"
          /\ ~Owns(lastCrud'.user, lastCrud'.id) => experiments' = experiments
          /\ \A e \in ExperimentIds :
                e # lastCrud'.id => experiments'[e] = experiments[e]
    /\ ~CrudStep => experiments' = experiments

C16_NonOwnerNoEffect == [][C16_CrudStep]_vars

C16_Witness ==
    /\ lastCrud.n = 2
    /\ lastCrud.op = "delete_experiment"
    /\ lastCrud.user = 2
    /\ lastCrud.id = 1
    /\ lastCrud.response = "Success"
    /\ experiments[1].name = "m"
====
